---- MODULE Spec2Model ----
(***************************************************************************)
(* Model of Backend/main.py: the /simulate handler run_simulation.         *)
(*                                                                         *)
(* Numbers.  The program computes in IEEE-754 doubles (Python float and    *)
(* numpy.float64).  A number is modelled as an extended rational           *)
(* [n |-> numerator, d |-> denominator] in lowest terms with d >= 0:       *)
(*   d > 0          the finite value n/d                                   *)
(*   d = 0, n = 1   +inf        d = 0, n = -1   -inf       d = 0, n = 0 nan*)
(* so that the results numpy gives for a division by zero (inf, nan) and   *)
(* their propagation through later arithmetic are part of the model.       *)
(* Rounding of finite results to 53 bits is not modelled.                  *)
(***************************************************************************)
EXTENDS Integers, Sequences, FiniteSets, TLC

\* ------------------------------------------------------------------ bounds
\* longest uploaded CSV (number of CsvRow) a request carries
MaxSamples == 3

\* ------------------------------------------------------- numeric layer
Abs(x) == IF x < 0 THEN -x ELSE x

Sgn(x) == IF x < 0 THEN -1 ELSE IF x > 0 THEN 1 ELSE 0

RECURSIVE GCD(_, _)
GCD(a, b) == IF b = 0 THEN a ELSE GCD(b, a % b)

\* the number n/d in lowest terms; a zero denominator gives inf, -inf or nan
Rt(n, d) ==
    IF d = 0 THEN [n |-> Sgn(n), d |-> 0]
    ELSE LET g == GCD(Abs(n), Abs(d))
             s == Sgn(d)
         IN  [n |-> (s * n) \div g, d |-> (s * d) \div g]

\* a Python int or an integral float
Num(k) == [n |-> k, d |-> 1]

NaN == [n |-> 0, d |-> 0]

IsNaN(x) == x.d = 0 /\ x.n = 0

IsInf(x) == x.d = 0 /\ x.n # 0

IsFinite(x) == x.d > 0

\* float addition: inf + (-inf) = nan, nan propagates
fAdd(a, b) ==
    IF IsNaN(a) \/ IsNaN(b) THEN NaN
    ELSE IF IsInf(a) /\ IsInf(b) THEN (IF a.n = b.n THEN a ELSE NaN)
    ELSE IF IsInf(a) THEN a
    ELSE IF IsInf(b) THEN b
    ELSE Rt(a.n * b.d + b.n * a.d, a.d * b.d)

fNeg(a) == [n |-> -a.n, d |-> a.d]

fSub(a, b) == fAdd(a, fNeg(b))

\* float multiplication: 0 * inf = nan, nan propagates
fMul(a, b) == Rt(a.n * b.n, a.d * b.d)

\* numpy.float64 true division: x / 0 is inf, -inf or nan (a RuntimeWarning,
\* never an exception)
NpDiv(a, b) ==
    IF b.n = 0 THEN Rt(a.n * b.d, 0)
    ELSE Rt(a.n * b.d * Sgn(b.n), a.d * Abs(b.n))

\* a <= b on floats; any comparison with nan is False
fLe(a, b) ==
    IF IsNaN(a) \/ IsNaN(b) THEN FALSE
    ELSE IF IsInf(a) /\ IsInf(b) THEN a.n <= b.n
    ELSE a.n * b.d <= b.n * a.d

\* a > b on floats; any comparison with nan is False
fGt(a, b) ==
    IF IsNaN(a) \/ IsNaN(b) THEN FALSE
    ELSE IF IsInf(a) /\ IsInf(b) THEN a.n > b.n
    ELSE a.n * b.d > b.n * a.d

fLt(a, b) == fGt(b, a)

fGe(a, b) == fLe(b, a)

\* Python's builtin max(a, b): the first argument unless the second is greater
PyMax(a, b) == IF fGt(b, a) THEN b ELSE a

\* numpy.max of a non-empty array: nan if any element is nan
RECURSIVE NpMax(_)
NpMax(a) ==
    IF Len(a) = 1 THEN a[1]
    ELSE LET m == NpMax(Tail(a))
         IN  IF IsNaN(a[1]) \/ IsNaN(m) THEN NaN
             ELSE IF fGt(a[1], m) THEN a[1] ELSE m

\* int(x) for a finite float x: truncation toward zero
PyInt(x) == Sgn(x.n) * (Abs(x.n) \div x.d)

\* Python float / int true division for a non-zero divisor (a zero divisor
\* raises ZeroDivisionError, which the caller models)
PyDiv(a, b) == Rt(a.n * b.d * Sgn(b.n), a.d * Abs(b.n))

\* x rounded to a multiple of 1/scale, ties to even, as the format
\* specification ".Nf" rounds; inf and nan are kept
RoundHalfEven(x, scale) ==
    IF ~IsFinite(x) THEN x
    ELSE LET num  == x.n * scale
             fl   == num \div x.d
             rem2 == 2 * (num - fl * x.d)
             up   == rem2 > x.d \/ (rem2 = x.d /\ fl % 2 = 1)
         IN  Rt(IF up THEN fl + 1 ELSE fl, scale)

\* f"{x:.1f}": fixed-point text with one decimal
Fmt1(x) == [decimals |-> 1, value |-> RoundHalfEven(x, 10)]

\* f"{x:.2f}": fixed-point text with two decimals
Fmt2(x) == [decimals |-> 2, value |-> RoundHalfEven(x, 100)]

\* Python's None
None == [isNone |-> TRUE]

\* 0-based indexing of an array held as a sequence
At(a, k) == a[k + 1]

\* a with its 0-based element k set to v
Put(a, k, v) == [a EXCEPT ![k + 1] = v]

\* numpy.zeros(n)
Zeros(n) == [k \in 1..n |-> Num(0)]

\* numpy.linspace(0, stop, num) for num >= 0
Linspace(stop, num) ==
    [k \in 1..num |->
        IF num = 1 THEN Num(0) ELSE fMul(Num(k - 1), PyDiv(stop, Num(num - 1)))]

\* 20 * numpy.sin(t / 60), with sin taken to first order (sin x ~ x), which
\* is exact at t = 0 and within 0.1 % for the cycle durations modelled
SineWave(t) == fMul(Num(20), NpDiv(t, Num(60)))

\* ------------------------------------------------------- request inputs
\* DriveConfig.type values sent by the frontend
TypeSet == {"upload", "predefined"}

\* DriveCycle.duration values (seconds)
DurationSet == {0, 1, 4}

\* DriveConfig.cycle: None or a DriveCycle (id and name only feed the log)
CycleSet == {None} \cup {[duration |-> d] : d \in DurationSet}

\* CsvRow values: time_s in seconds, current_a in amperes (speed_kmh unused)
CsvRowSet ==
    {[time_s |-> Num(t), current_a |-> Num(c)] :
        t \in {0, 1800, 3600}, c \in {-10, 10}}

\* DriveConfig.csvData; None and [] are both falsy and are modelled as << >>
CsvDataSet == UNION {[1..n -> CsvRowSet] : n \in 0..MaxSamples}

\* DriveConfig values
DriveSet ==
    [type : TypeSet, cycle : CycleSet, csvData : CsvDataSet,
     startingSoc : {Num(5), Num(100)}, ambientTemp : {Num(25)}]

\* PackConfig values: 3.7 V cells, 10 in series, 4 in parallel, 10 kWh
PackSet ==
    [cell : [voltage : {Rt(37, 10)}, capacity : {Num(0), Num(5)}],
     seriesCount : {10}, parallelCount : {4}, totalEnergy : {Num(10)}]

\* SimulationConfig values (electrical.model is never read)
SimSet == [thermal : [enabled : BOOLEAN], life : [enabled : BOOLEAN]]

\* values numpy.random.normal(0, 15) may draw for one sample
NoiseSet == {Num(-15), Num(15)}

\* values numpy.random.rand() may draw, all in [0, 1)
RandSet == {Num(0), Rt(1, 2), Rt(19, 20)}

\* ------------------------------------------------------------- state
VARIABLES
    pack,               \* request.packConfig
    drive,              \* request.driveConfig
    sim,                \* request.simulationConfig
    pc,                 \* position in run_simulation
    log_message,        \* which data source was chosen
    time_points,        \* array of times
    current_profile,    \* array of currents
    soc,                \* array of state of charge
    voltage,            \* array of terminal voltage
    temperature,        \* array of temperature
    total_capacity_ah,  \* cell capacity * parallelCount
    i,                  \* loop index of the integration pass (0-based)
    exc,                \* exception caught by the handler's except clause
    results,            \* the dictionary run_simulation returns
    response            \* what the caller of the endpoint observes

vars ==
    <<pack, drive, sim, pc, log_message, time_points, current_profile, soc,
      voltage, temperature, total_capacity_ah, i, exc, results, response>>

NoExc == [type |-> "none", status_code |-> 0, detail |-> ""]

NoResponse == [status_code |-> 0, detail |-> "", body |-> None]

\* raise HTTPException(status_code, detail): FastAPI answers with that status
HTTPException(status_code, detail) ==
    [type |-> "HTTPException", status_code |-> status_code, detail |-> detail]

\* any other exception raised inside the try block
Raised(type, detail) == [type |-> type, status_code |-> 0, detail |-> detail]

Init ==
    /\ pack \in PackSet
    /\ drive \in DriveSet
    /\ sim \in SimSet
    /\ pc = "source"
    /\ log_message = ""
    /\ time_points = << >>
    /\ current_profile = << >>
    /\ soc = << >>
    /\ voltage = << >>
    /\ temperature = << >>
    /\ total_capacity_ah = Num(0)
    /\ i = 0
    /\ exc = NoExc
    /\ results = None
    /\ response = NoResponse

\* --------------------------------------------------- data source (110-125)
\* UsesCsv with the test of the type dropped
UsesCsvIgnoringType(d) == d.csvData # << >>

\* the condition of the if: type is 'upload' and csvData is truthy
UsesCsv(d) == d.type = "upload" /\ d.csvData # << >>

\* the condition of the elif, reached when the if's condition is false
UsesCycle(d) == ~UsesCsv(d) /\ d.cycle # None

\* time_points of the upload branch
CsvTimes(csvData) == [k \in 1..Len(csvData) |-> csvData[k].time_s]

\* CsvCurrents reading the wrong column of the rows
CsvCurrentsFromTime(csvData) == [k \in 1..Len(csvData) |-> csvData[k].time_s]

\* current_profile of the upload branch
CsvCurrents(csvData) == [k \in 1..Len(csvData) |-> csvData[k].current_a]

\* points = int(duration / 2)
CyclePoints(duration) == PyInt(PyDiv(Num(duration), Num(2)))

\* current_profile = base_current + noise + sine_wave
CycleCurrents(base_current, noise, times) ==
    [k \in 1..Len(times) |->
        fAdd(fAdd(base_current, noise[k]), SineWave(times[k]))]

UseCsvData ==
    /\ pc = "source"
    /\ UsesCsv(drive)
    /\ log_message' = "Logic Path: Using custom CSV data for simulation."
    /\ time_points' = CsvTimes(drive.csvData)
    /\ current_profile' = CsvCurrents(drive.csvData)
    /\ pc' = "integrate"
    /\ UNCHANGED <<pack, drive, sim, soc, voltage, temperature,
                   total_capacity_ah, i, exc, results, response>>

UseCycle ==
    /\ pc = "source"
    /\ UsesCycle(drive)
    /\ LET duration == drive.cycle.duration
           points   == CyclePoints(duration)
       IN  IF points < 0
           THEN \* numpy.linspace rejects a negative number of samples
                /\ exc' = Raised("ValueError", "Number of samples must be non-negative")
                /\ pc' = "except"
                /\ log_message' = "Logic Path: Using predefined cycle."
                /\ UNCHANGED <<time_points, current_profile>>
           ELSE IF duration = 0
           THEN \* (pack.totalEnergy * 10) / duration on Python floats
                /\ exc' = Raised("ZeroDivisionError", "float division by zero")
                /\ pc' = "except"
                /\ log_message' = "Logic Path: Using predefined cycle."
                /\ time_points' = Linspace(Num(duration), points)
                /\ UNCHANGED current_profile
           ELSE \E noise \in [1..points -> NoiseSet] :
                /\ log_message' = "Logic Path: Using predefined cycle."
                /\ time_points' = Linspace(Num(duration), points)
                /\ current_profile' =
                       CycleCurrents(
                           PyDiv(fMul(pack.totalEnergy, Num(10)), Num(duration)),
                           noise, Linspace(Num(duration), points))
                /\ pc' = "integrate"
                /\ UNCHANGED exc
    /\ UNCHANGED <<pack, drive, sim, soc, voltage, temperature,
                   total_capacity_ah, i, results, response>>

RaiseInvalid ==
    /\ pc = "source"
    /\ ~UsesCsv(drive)
    /\ ~UsesCycle(drive)
    /\ exc' = HTTPException(400, "Invalid drive cycle configuration.")
    /\ pc' = "except"
    /\ UNCHANGED <<pack, drive, sim, log_message, time_points, current_profile,
                   soc, voltage, temperature, total_capacity_ah, i, results,
                   response>>

\* ------------------------------------------------ integration (130-152)
\* SocDelta with the sign of the charge delta reversed
SocDeltaNegated(current, dt, capacity) ==
    fNeg(fMul(NpDiv(NpDiv(fMul(current, dt), Num(3600)), capacity), Num(100)))

\* soc_delta = (current_profile[i] * dt / 3600) / total_capacity_ah * 100,
\* all on numpy.float64
SocDelta(current, dt, capacity) ==
    fMul(NpDiv(NpDiv(fMul(current, dt), Num(3600)), capacity), Num(100))

\* SocStep without the floor at 0
SocStepNoFloor(prev, soc_delta) == fSub(prev, soc_delta)

\* soc[i] = max(0, soc[i-1] - soc_delta)
SocStep(prev, soc_delta) == PyMax(Num(0), fSub(prev, soc_delta))

\* voltage[i] = (cell.voltage * seriesCount) * (0.9 + 0.1 * (soc[i]/100))
\*              - (current_profile[i] * 0.05)
VoltageStep(p, soc_i, current) ==
    fSub(fMul(fMul(p.cell.voltage, Num(p.seriesCount)),
              fAdd(Rt(9, 10), fMul(Rt(1, 10), NpDiv(soc_i, Num(100))))),
         fMul(current, Rt(5, 100)))

\* temperature[i] with the thermal sub-model enabled or disabled
TemperatureStep(s, prev, current, dt, ambientTemp) ==
    IF s.thermal.enabled
    THEN LET heat_gen         == fMul(fMul(current, current), Rt(2, 1000))
             heat_dissipation == fMul(fSub(prev, ambientTemp), Rt(1, 100))
             temp_delta       ==
                 NpDiv(fMul(fSub(heat_gen, heat_dissipation), dt), Num(100))
         IN  fAdd(prev, temp_delta)
    ELSE ambientTemp

\* lines 130-138: allocate the arrays and set index 0
InitState ==
    /\ pc = "integrate"
    /\ LET points == Len(time_points)
       IN  IF points = 0
           THEN \* soc[0] = ... on an array of size 0
                /\ exc' = Raised("IndexError", "index 0 is out of bounds")
                /\ pc' = "except"
                /\ soc' = Zeros(points)
                /\ voltage' = Zeros(points)
                /\ temperature' = Zeros(points)
                /\ UNCHANGED <<total_capacity_ah, i>>
           ELSE /\ soc' = Put(Zeros(points), 0, drive.startingSoc)
                /\ voltage' =
                       Put(Zeros(points), 0,
                           fMul(pack.cell.voltage, Num(pack.seriesCount)))
                /\ temperature' = Put(Zeros(points), 0, drive.ambientTemp)
                /\ total_capacity_ah' =
                       fMul(pack.cell.capacity, Num(pack.parallelCount))
                /\ i' = 1
                /\ pc' = "loop"
                /\ UNCHANGED exc
    /\ UNCHANGED <<pack, drive, sim, log_message, time_points, current_profile,
                   results, response>>

\* dt = time_points[i] - time_points[i-1]
Dt(times, k) == fSub(At(times, k), At(times, k - 1))

\* one iteration of "for i in range(1, points)" whose dt <= 0: continue
SkipStep ==
    /\ pc = "loop"
    /\ i < Len(time_points)
    /\ fLe(Dt(time_points, i), Num(0))
    /\ i' = i + 1
    /\ UNCHANGED <<pack, drive, sim, pc, log_message, time_points,
                   current_profile, soc, voltage, temperature,
                   total_capacity_ah, exc, results, response>>

\* one iteration of "for i in range(1, points)" that updates index i
Step ==
    /\ pc = "loop"
    /\ i < Len(time_points)
    /\ ~fLe(Dt(time_points, i), Num(0))
    /\ LET dt        == Dt(time_points, i)
           current   == At(current_profile, i)
           soc_delta == SocDelta(current, dt, total_capacity_ah)
           soc_i     == SocStep(At(soc, i - 1), soc_delta)
       IN  /\ soc' = Put(soc, i, soc_i)
           /\ voltage' = Put(voltage, i, VoltageStep(pack, soc_i, current))
           /\ temperature' =
                  Put(temperature, i,
                      TemperatureStep(sim, At(temperature, i - 1), current, dt,
                                      drive.ambientTemp))
    /\ i' = i + 1
    /\ UNCHANGED <<pack, drive, sim, pc, log_message, time_points,
                   current_profile, total_capacity_ah, exc, results, response>>

\* --------------------------------------------------- results (163-191)
\* one TimeSeriesPoint per index, zipped from the five arrays
TimeSeries(times, socs, volts, currents, temps) ==
    [k \in 1..Len(times) |->
        [time |-> times[k], soc |-> socs[k], voltage |-> volts[k],
         current |-> currents[k], temperature |-> temps[k],
         power |-> NpDiv(fMul(volts[k], currents[k]), Num(1000))]]

\* final_soc = soc[-1] if len(soc) > 0 else 0
FinalSoc(socs) == IF Len(socs) > 0 THEN socs[Len(socs)] ELSE Num(0)

\* max_temp = np.max(temperature) if len(temperature) > 0 else 0
MaxTemp(temps) == IF Len(temps) > 0 THEN NpMax(temps) ELSE Num(0)

\* StateOfHealth computed whatever the life toggle says
StateOfHealthAlways(s, rand) == Fmt1(fSub(Rt(995, 10), fMul(rand, Rt(1, 2))))

\* "stateOfHealth": f"{99.5 - np.random.rand() * 0.5:.1f}" if life enabled
StateOfHealth(s, rand) ==
    IF s.life.enabled
    THEN Fmt1(fSub(Rt(995, 10), fMul(rand, Rt(1, 2))))
    ELSE None

\* the "summary" dictionary
Summary(p, d, s, socs, temps, rand) ==
    [finalSoc       |-> Fmt1(FinalSoc(socs)),
     totalEnergy    |->
         Fmt2(NpDiv(fMul(p.totalEnergy, fSub(d.startingSoc, FinalSoc(socs))),
                    Num(100))),
     maxTemperature |-> Fmt1(MaxTemp(temps)),
     efficiency     |-> Fmt1(Rt(923, 10)),
     stateOfHealth  |-> StateOfHealth(s, rand)]

\* the loop is over: build the results dictionary and return it
ReturnResults ==
    /\ pc = "loop"
    /\ i >= Len(time_points)
    /\ \E rand \in RandSet :
          results' =
              [summary    |-> Summary(pack, drive, sim, soc, temperature, rand),
               timeSeries |->
                   TimeSeries(time_points, soc, voltage, current_profile,
                              temperature)]
    /\ pc' = "respond"
    /\ UNCHANGED <<pack, drive, sim, log_message, time_points, current_profile,
                   soc, voltage, temperature, total_capacity_ah, i, exc,
                   response>>

\* every float of the time series is finite: the JSON response of the
\* framework is rendered with allow_nan=False and rejects inf and nan
JsonCompliant(r) ==
    \A k \in 1..Len(r.timeSeries) :
        /\ IsFinite(r.timeSeries[k].time)
        /\ IsFinite(r.timeSeries[k].soc)
        /\ IsFinite(r.timeSeries[k].voltage)
        /\ IsFinite(r.timeSeries[k].current)
        /\ IsFinite(r.timeSeries[k].temperature)
        /\ IsFinite(r.timeSeries[k].power)

\* the route decorator turns the returned dictionary into the JSON response:
\* status 200 with the results, or, when rendering raises, the server's 500
SendResponse ==
    /\ pc = "respond"
    /\ response' =
           IF JsonCompliant(results)
           THEN [status_code |-> 200, detail |-> "", body |-> results]
           ELSE [status_code |-> 500, detail |-> "Internal Server Error",
                 body |-> None]
    /\ pc' = "done"
    /\ UNCHANGED <<pack, drive, sim, log_message, time_points, current_profile,
                   soc, voltage, temperature, total_capacity_ah, i, exc,
                   results>>

\* ---------------------------------------------- except clause (193-195)
\* except Exception as e: raise HTTPException(status_code=500, detail=str(e))
\* (HTTPException is itself an Exception, so the 400 of line 125 lands here)
ExceptHandler ==
    /\ pc = "except"
    /\ response' =
           [status_code |-> HTTPException(500, exc.detail).status_code,
            detail |-> HTTPException(500, exc.detail).detail, body |-> None]
    /\ pc' = "done"
    /\ UNCHANGED <<pack, drive, sim, log_message, time_points, current_profile,
                   soc, voltage, temperature, total_capacity_ah, i, exc,
                   results>>

Next ==
    \/ UseCsvData
    \/ UseCycle
    \/ RaiseInvalid
    \/ InitState
    \/ SkipStep
    \/ Step
    \/ ReturnResults
    \/ SendResponse
    \/ ExceptHandler

Spec == Init /\ [][Next]_vars

\* =================================================================== claims
\* run_simulation returned its results dictionary
Returned == results # None

\* the time series of the returned results
Emitted == results.timeSeries

\* the caller received the results (status 200)
Delivered == pc = "done" /\ response.status_code = 200

\* the time step the integration pass sees at emitted point k (k >= 2)
EmittedDt(k) == fSub(Emitted[k].time, Emitted[k - 1].time)

\* C1: in the integration pass, every index i >= 1 whose dt <= 0 emits the
\* state of charge, voltage and temperature of index i-1 unchanged.
C1_NonPositiveDtIsNoOp ==
    Delivered =>
        \A k \in 2..Len(Emitted) :
            fLe(EmittedDt(k), Num(0)) =>
                /\ Emitted[k].soc = Emitted[k - 1].soc
                /\ Emitted[k].voltage = Emitted[k - 1].voltage
                /\ Emitted[k].temperature = Emitted[k - 1].temperature

\* C2: with the thermal sub-model disabled, the temperature of every emitted
\* point (index 0 and the indices whose dt <= 0 included) equals ambientTemp.
C2_TemperaturePinnedToAmbient ==
    (Delivered /\ ~sim.thermal.enabled) =>
        \A k \in 1..Len(Emitted) : Emitted[k].temperature = drive.ambientTemp

\* C3: a DriveConfig with neither samples nor a drive cycle ends in a
\* client-side error (4xx), not the internal error (5xx), and no result
\* bundle is returned.
C3_InvalidConfigurationIsClientError ==
    (pc = "done" /\ drive.csvData = << >> /\ drive.cycle = None) =>
        /\ response.status_code \in 400..499
        /\ response.body = None

\* C4: for any load profile and any startingSoc in 0..100, the state of
\* charge of every emitted point is >= 0.
C4_SocNonNegative ==
    Returned => \A k \in 1..Len(Emitted) : fGe(Emitted[k].soc, Num(0))

\* C4 witness: a returned run in which the floor clamp acted: a step with
\* dt > 0 and positive capacity took a positive state of charge to exactly 0.
C4_Witness ==
    /\ Returned
    /\ fGt(total_capacity_ah, Num(0))
    /\ \E k \in 2..Len(Emitted) :
          /\ fGt(EmittedDt(k), Num(0))
          /\ fGt(Emitted[k - 1].soc, Num(0))
          /\ Emitted[k].soc = Num(0)

\* C5: in synthetic mode with DriveCycle.duration = 0 the request does not
\* fail: it returns an empty time series and finalSoc equal to startingSoc.
C5_ZeroDurationReturnsEmpty ==
    (/\ pc = "done"
     /\ ~(drive.type = "upload" /\ drive.csvData # << >>)
     /\ drive.cycle # None
     /\ drive.cycle.duration = 0) =>
        /\ response.status_code = 200
        /\ response.body.timeSeries = << >>
        /\ response.body.summary.finalSoc = Fmt1(drive.startingSoc)

\* the request took the replay branch
Replayed == drive.type = "upload" /\ drive.csvData # << >>

\* C6: a successful replay of n samples returns exactly n points, and point
\* k carries the time and current of sample k (same order, nothing dropped,
\* also when the timestamps are not increasing).
C6_ReplayPassThrough ==
    (Returned /\ Replayed) =>
        /\ Len(Emitted) = Len(drive.csvData)
        /\ \A k \in 1..Len(drive.csvData) :
              /\ Emitted[k].time = drive.csvData[k].time_s
              /\ Emitted[k].current = drive.csvData[k].current_a

\* C6 witness: a returned replay of three samples whose timestamps go back in
\* time and whose currents differ.
C6_Witness ==
    /\ Returned
    /\ Replayed
    /\ Len(Emitted) = 3
    /\ fLt(Emitted[2].time, Emitted[1].time)
    /\ Emitted[2].current # Emitted[3].current

\* the load-source stage is over
SourceChosen == pc # "source"

\* the arrays are those of the upload branch
ProfileIsReplay ==
    /\ log_message = "Logic Path: Using custom CSV data for simulation."
    /\ Len(time_points) = Len(drive.csvData)
    /\ Len(current_profile) = Len(drive.csvData)
    /\ \A k \in 1..Len(drive.csvData) :
          /\ time_points[k] = drive.csvData[k].time_s
          /\ current_profile[k] = drive.csvData[k].current_a

\* the elif branch (synthetic generation) was entered
SyntheticEntered == log_message = "Logic Path: Using predefined cycle."

\* the load-source stage failed: it raised its invalid-configuration error
SourceFailed == exc.type = "HTTPException" /\ exc.status_code = 400

\* C7 as stated: non-empty samples are replayed whatever type and cycle hold;
\* synthetic generation is used only when a cycle is given and no samples
\* are; the load-source stage fails only when neither is present.
C7_SamplesAlwaysReplayed ==
    SourceChosen =>
        /\ drive.csvData # << >> => ProfileIsReplay
        /\ SyntheticEntered => (drive.cycle # None /\ drive.csvData = << >>)
        /\ SourceFailed => (drive.csvData = << >> /\ drive.cycle = None)

\* C7 amended: the replay branch is taken exactly when type is 'upload' and
\* the samples are non-empty, whatever cycle holds; synthetic generation is
\* entered exactly when that does not hold and a cycle is given; the
\* invalid-configuration error (HTTPException 400) is raised exactly when
\* neither holds.
C7_SourceSelection ==
    SourceChosen =>
        /\ (drive.type = "upload" /\ drive.csvData # << >>) <=> ProfileIsReplay
        /\ SyntheticEntered <=>
              (~(drive.type = "upload" /\ drive.csvData # << >>)
               /\ drive.cycle # None)
        /\ SourceFailed <=>
              (~(drive.type = "upload" /\ drive.csvData # << >>)
               /\ drive.cycle = None)

\* C7 witness: samples were supplied with a type other than 'upload' and a
\* cycle, and the request returned a synthetic profile.
C7_Witness ==
    /\ Returned
    /\ drive.csvData # << >>
    /\ drive.type # "upload"
    /\ drive.cycle # None
    /\ SyntheticEntered
    /\ Len(Emitted) # Len(drive.csvData)

\* C8: with total pack capacity zero and a load profile holding a step with
\* dt > 0, the request ends in the internal error and returns no results.
C8_ZeroCapacityFails ==
    (/\ pc = "done"
     /\ fMul(pack.cell.capacity, Num(pack.parallelCount)) = Num(0)
     /\ \E k \in 2..Len(time_points) :
           fGt(fSub(time_points[k], time_points[k - 1]), Num(0))) =>
        /\ response.status_code = 500
        /\ response.body = None

\* the summary's stateOfHealth of a returned request
SoH == results.summary.stateOfHealth

\* C9 as stated: stateOfHealth is a value iff the life toggle is enabled, and
\* the value lies in (99.0, 99.5].
C9_SohInHalfOpenInterval ==
    Returned =>
        /\ SoH # None <=> sim.life.enabled
        /\ SoH # None =>
              (fGt(SoH.value, Num(99)) /\ fLe(SoH.value, Rt(995, 10)))

\* C9 amended: stateOfHealth is a value iff the life toggle is enabled, and
\* the value, a text with one decimal, lies in [99.0, 99.5].
C9_SohInClosedInterval ==
    Returned =>
        /\ SoH # None <=> sim.life.enabled
        /\ SoH # None =>
              /\ SoH.decimals = 1
              /\ fGe(SoH.value, Num(99))
              /\ fLe(SoH.value, Rt(995, 10))

\* C9 witness: a returned request with the life sub-model enabled whose
\* stateOfHealth reads 99.0.
C9_Witness == Returned /\ sim.life.enabled /\ SoH # None /\ SoH.value = Num(99)

\* C10: for a replay whose currents are all >= 0, with positive capacity and
\* startingSoc in 0..100, the emitted state of charge never increases with
\* the index (indices whose dt <= 0 included) and stays in 0..startingSoc.
C10_SocNonIncreasing ==
    (/\ Returned
     /\ Replayed
     /\ \A k \in 1..Len(drive.csvData) :
           fGe(drive.csvData[k].current_a, Num(0))
     /\ fGt(fMul(pack.cell.capacity, Num(pack.parallelCount)), Num(0))) =>
        /\ \A k \in 2..Len(Emitted) : fLe(Emitted[k].soc, Emitted[k - 1].soc)
        /\ \A k \in 1..Len(Emitted) :
              /\ fGe(Emitted[k].soc, Num(0))
              /\ fLe(Emitted[k].soc, drive.startingSoc)

\* C10 witness: a returned discharge-only replay of three samples in which
\* one step strictly lowered the state of charge without reaching 0 and
\* another index had dt <= 0.
C10_Witness ==
    /\ Returned
    /\ Replayed
    /\ \A k \in 1..Len(drive.csvData) :
          fGe(drive.csvData[k].current_a, Num(0))
    /\ fGt(total_capacity_ah, Num(0))
    /\ Len(Emitted) = 3
    /\ \E k \in 2..3 :
          /\ fGt(EmittedDt(k), Num(0))
          /\ fLt(Emitted[k].soc, Emitted[k - 1].soc)
          /\ fGt(Emitted[k].soc, Num(0))
    /\ \E k \in 2..3 : fLe(EmittedDt(k), Num(0))

====
